---- MODULE Spec2Model ----
(***************************************************************************)
(* Model of the QubitSDK facade of qubit-sdk-react-native (src/index.ts):  *)
(* two configuration fields, a platform guard, and forwarding of every     *)
(* operation to the native module NativeModules.QubitSDK.                  *)
(*                                                                         *)
(* The native module and the promises it returns are the environment: the  *)
(* model records every call the native module receives and lets each       *)
(* native promise stay pending, resolve or reject.                          *)
(***************************************************************************)
EXTENDS Integers, Sequences, FiniteSets, TLC

VARIABLES
    os,            \* Platform.OS
    linked,        \* whether NativeModules.QubitSDK is defined in this build
    _trackingId,   \* QubitSDK._trackingId
    _logLevel,     \* QubitSDK._logLevel
    nativeCalls,   \* calls received by NativeModules.QubitSDK, in order
    results,       \* one entry per promise returned by the facade
    calls          \* history of facade invocations (observation only)

vars == <<os, linked, _trackingId, _logLevel, nativeCalls, results, calls>>

config == <<_trackingId, _logLevel>>

----------------------------------------------------------------------------
(* Bounds of the exploration *)

\* facade invocations explored when every operation is available
MaxAll == 2

\* facade invocations explored in the focused specifications
MaxCalls == 3

----------------------------------------------------------------------------
(* Value domains *)

Null == "null"
Undefined == "undefined"

Platforms == {"ios", "android"}

LogLevels == {"SILENT", "ERROR", "WARN", "INFO", "DEBUG", "VERBOSE"}

DefaultLogLevel == "WARN"

TrackingIds == {"abc"}

EventArgs ==
    { <<"ecView", [type |-> "home"]>>,
      <<"ecProduct", [type |-> "button"]>> }

\* (experienceIds, isVariationSet, variation, isPreviewSet, preview,
\*  isIgnoreSegmentsSet, ignoreSegments)
ExperienceArgs ==
    { <<(<<>>), FALSE, 0, FALSE, FALSE, FALSE, FALSE>>,
      <<(<<1, 2>>), TRUE, 5, FALSE, FALSE, TRUE, TRUE>> }

E1 == [id |-> 1, callback |-> "url"]
E2 == [id |-> 2, callback |-> "url2", isControl |-> TRUE]

\* what the native getExperiences promise may resolve with
NativeExperiences == { <<E1>>, <<E2, E1>> }

\* what a native accessor promise may resolve with
NativeStrings == {"v1"}

\* what a native promise may reject with
NativeErrors == {"E_NATIVE", "E_OTHER"}

AccessorErrors == {"E_NATIVE"}

Accessors == {"getTrackingId", "getDeviceId", "getLookupData"}

----------------------------------------------------------------------------
(* Promises *)

Pending == [state |-> "pending", value |-> Undefined]

NoPromise == [state |-> "none", value |-> Undefined]

\* resolve / reject of a promise: only the first settlement counts
Settle(p, st, v) ==
    IF p.state = "pending" THEN [state |-> st, value |-> v] ELSE p

----------------------------------------------------------------------------
(* The platform guard *)

\* variant: the platform tag misspelt
IsIosMisspelt(p) == p = "iOS"

IsIos(p) == p = "ios"

NativeCall(m, a) == [method |-> m, args |-> a]

FacadeCall(o, a) == [op |-> o, args |-> a]

----------------------------------------------------------------------------
(* Pure parts of the facade's methods *)

\* variant: the two arguments of init swapped
StartCallsSwapped(p, tid, lvl, nc) ==
    IF IsIos(p) THEN nc ELSE Append(nc, NativeCall("init", <<lvl, tid>>))

\* start(): the native calls after the call
StartCalls(p, tid, lvl, nc) ==
    IF IsIos(p) THEN nc ELSE Append(nc, NativeCall("init", <<tid, lvl>>))

\* variant: the event body not forwarded
SendEventCallsBodyDropped(p, a, nc) ==
    IF IsIos(p) THEN nc ELSE Append(nc, NativeCall("sendEvent", <<a[1]>>))

\* sendEvent(eventType, eventBody)
SendEventCalls(p, a, nc) ==
    IF IsIos(p) THEN nc ELSE Append(nc, NativeCall("sendEvent", <<a[1], a[2]>>))

\* enable(value)
EnableCalls(p, v, nc) ==
    IF IsIos(p) THEN nc ELSE Append(nc, NativeCall("enableTracker", <<v>>))

\* variant: the platform guard left out
AccessorCallsUnguarded(p, m, nc) == Append(nc, NativeCall(m, <<>>))

\* getTrackingId() / getDeviceId() / getLookupData(): the native calls
AccessorCalls(p, m, nc) ==
    IF IsIos(p) THEN nc ELSE Append(nc, NativeCall(m, <<>>))

\* ... and the promise returned: Promise.reject() on ios, the native promise
\* itself elsewhere (wrapped = FALSE: the two are one object)
AccessorResult(p, m) ==
    IF IsIos(p)
    THEN [op |-> m, promise |-> Settle(Pending, "rejected", Undefined),
          native |-> NoPromise, wrapped |-> FALSE, chain |-> "none"]
    ELSE [op |-> m, promise |-> Pending,
          native |-> Pending, wrapped |-> FALSE, chain |-> "none"]

\* variant: the platform rejection left out
ExecutorGuardMissing(p, pr) == pr

\* getExperiences: the executor's first statement
ExecutorGuard(p, pr) ==
    IF IsIos(p) THEN Settle(pr, "rejected", Undefined) ELSE pr

\* variant: preview and ignoreSegments swapped
ForwardedExperienceArgsSwapped(a) ==
    <<a[1], a[2], a[3], a[4], a[7], a[6], a[5]>>

\* getExperiences: the arguments handed to the native module
ForwardedExperienceArgs(a) ==
    <<a[1], a[2], a[3], a[4], a[5], a[6], a[7]>>

\* getExperiences: the native calls after the executor ran.  There is no
\* return after reject(), so the call is made whatever the platform; when the
\* native module is undefined the property access throws before any call.
GetExperiencesCalls(p, lk, a, nc) ==
    IF lk
    THEN Append(nc, NativeCall("getExperiences", ForwardedExperienceArgs(a)))
    ELSE nc

\* getExperiences: the promise returned and the state of its then/catch chain
GetExperiencesResult(p, lk) ==
    IF lk
    THEN [op |-> "getExperiences", promise |-> ExecutorGuard(p, Pending),
          native |-> Pending, wrapped |-> TRUE, chain |-> "waiting"]
    ELSE [op |-> "getExperiences",
          promise |-> Settle(ExecutorGuard(p, Pending), "rejected", "TypeError"),
          native |-> NoPromise, wrapped |-> TRUE, chain |-> "none"]

\* the closure () => { NativeModules.QubitSDK.experienceShown(e) }
ShownClosure(e) == [captured |-> e]

\* variant: the spread of the native record left out
DecorateWithoutSpread(e) == [shown |-> ShownClosure(e)]

\* e => ({...e, shown: () => {...}})
Decorate(e) ==
    [k \in (DOMAIN e) \cup {"shown"} |->
        IF k = "shown" THEN ShownClosure(e) ELSE e[k]]

\* experiences.map(e => ...)
MapDecorate(es) == [i \in 1..Len(es) |-> Decorate(es[i])]

\* invoking an element's shown()
ShownCalls(el, nc) ==
    Append(nc, NativeCall("experienceShown", <<el.shown.captured>>))

----------------------------------------------------------------------------
(* Initial state: the singleton exported by the module *)

Init ==
    /\ os \in Platforms
    /\ linked \in (IF IsIos(os) THEN BOOLEAN ELSE {TRUE})
    /\ _trackingId = Null
    /\ _logLevel = DefaultLogLevel
    /\ nativeCalls = <<>>
    /\ results = <<>>
    /\ calls = <<>>

----------------------------------------------------------------------------
(* Operations of the facade *)

WithLogLevel(l) ==
    /\ _logLevel' = l
    /\ calls' = Append(calls, FacadeCall("withLogLevel", <<l>>))
    /\ UNCHANGED <<os, linked, _trackingId, nativeCalls, results>>

\* variant: the setter writes the other field
WithTrackingIdCopyPaste(t) ==
    /\ _logLevel' = t
    /\ calls' = Append(calls, FacadeCall("withTrackingId", <<t>>))
    /\ UNCHANGED <<os, linked, _trackingId, nativeCalls, results>>

WithTrackingId(t) ==
    /\ _trackingId' = t
    /\ calls' = Append(calls, FacadeCall("withTrackingId", <<t>>))
    /\ UNCHANGED <<os, linked, _logLevel, nativeCalls, results>>

Start ==
    /\ nativeCalls' = StartCalls(os, _trackingId, _logLevel, nativeCalls)
    /\ calls' = Append(calls, FacadeCall("start", <<>>))
    /\ UNCHANGED <<os, linked, _trackingId, _logLevel, results>>

SendEvent(a) ==
    /\ nativeCalls' = SendEventCalls(os, a, nativeCalls)
    /\ calls' = Append(calls, FacadeCall("sendEvent", a))
    /\ UNCHANGED <<os, linked, _trackingId, _logLevel, results>>

Enable(v) ==
    /\ nativeCalls' = EnableCalls(os, v, nativeCalls)
    /\ calls' = Append(calls, FacadeCall("enable", <<v>>))
    /\ UNCHANGED <<os, linked, _trackingId, _logLevel, results>>

Accessor(m) ==
    /\ nativeCalls' = AccessorCalls(os, m, nativeCalls)
    /\ results' = Append(results, AccessorResult(os, m))
    /\ calls' = Append(calls, FacadeCall(m, <<>>))
    /\ UNCHANGED <<os, linked, _trackingId, _logLevel>>

GetExperiences(a) ==
    /\ nativeCalls' = GetExperiencesCalls(os, linked, a, nativeCalls)
    /\ results' = Append(results, GetExperiencesResult(os, linked))
    /\ calls' = Append(calls, FacadeCall("getExperiences", a))
    /\ UNCHANGED <<os, linked, _trackingId, _logLevel>>

\* the elements of a result the caller can reach
Elements(r) ==
    IF r.op = "getExperiences" /\ r.promise.state = "fulfilled"
    THEN 1..Len(r.promise.value)
    ELSE {}

\* the caller invokes shown() of element j of the i-th result
InvokeShown(i, j) ==
    /\ j \in Elements(results[i])
    /\ nativeCalls' = ShownCalls(results[i].promise.value[j], nativeCalls)
    /\ calls' = Append(calls, FacadeCall("shown", <<i, j>>))
    /\ UNCHANGED <<os, linked, _trackingId, _logLevel, results>>

----------------------------------------------------------------------------
(* The native promises and the reactions registered on them *)

NativeOutcomes(m) ==
    IF m = "getExperiences"
    THEN {[state |-> "fulfilled", value |-> v] : v \in NativeExperiences}
         \cup {[state |-> "rejected", value |-> v] : v \in NativeErrors}
    ELSE {[state |-> "fulfilled", value |-> v] : v \in NativeStrings}
         \cup {[state |-> "rejected", value |-> v] : v \in AccessorErrors}

\* the native promise of result i settles
NativeSettle(i, o) ==
    /\ results[i].native.state = "pending"
    /\ results' = [results EXCEPT ![i] =
          IF results[i].wrapped
          THEN [@ EXCEPT !.native = o, !.chain = "then"]
          ELSE [@ EXCEPT !.native = o, !.promise = o]]
    /\ UNCHANGED <<os, linked, _trackingId, _logLevel, nativeCalls, calls>>

\* .then(experiences => resolve(experiences.map(...)))
ThenResult(r) ==
    IF r.native.state = "fulfilled"
    THEN [r EXCEPT !.promise = Settle(@, "fulfilled", MapDecorate(r.native.value)),
                   !.chain = "done"]
    ELSE [r EXCEPT !.chain = "catch"]

ThenReaction(i) ==
    /\ results[i].chain = "then"
    /\ results' = [results EXCEPT ![i] = ThenResult(@)]
    /\ UNCHANGED <<os, linked, _trackingId, _logLevel, nativeCalls, calls>>

\* variant: .catch(() => reject()), the native error dropped
CatchResultEmpty(r) ==
    [r EXCEPT !.promise = Settle(@, "rejected", Undefined),
              !.chain = "done"]

\* .catch(reject)
CatchResult(r) ==
    [r EXCEPT !.promise = Settle(@, "rejected", r.native.value),
              !.chain = "done"]

CatchReaction(i) ==
    /\ results[i].chain = "catch"
    /\ results' = [results EXCEPT ![i] = CatchResult(@)]
    /\ UNCHANGED <<os, linked, _trackingId, _logLevel, nativeCalls, calls>>

----------------------------------------------------------------------------

(* Next-state relations *)

Room(n) == Len(calls) < n

Results == 1..Len(results)

\* every operation, on every platform
Next ==
    \/ Room(MaxAll) /\ \E l \in LogLevels : WithLogLevel(l)
    \/ Room(MaxAll) /\ \E t \in TrackingIds : WithTrackingId(t)
    \/ Room(MaxAll) /\ Start
    \/ Room(MaxAll) /\ \E a \in EventArgs : SendEvent(a)
    \/ Room(MaxAll) /\ \E v \in BOOLEAN : Enable(v)
    \/ Room(MaxAll) /\ \E m \in Accessors : Accessor(m)
    \/ Room(MaxAll) /\ \E a \in ExperienceArgs : GetExperiences(a)
    \/ Room(MaxAll) /\ \E i \in Results : \E j \in Elements(results[i]) : InvokeShown(i, j)
    \/ \E i \in Results : \E o \in NativeOutcomes(results[i].op) : NativeSettle(i, o)
    \/ \E i \in Results : ThenReaction(i)
    \/ \E i \in Results : CatchReaction(i)

Spec == Init /\ [][Next]_vars

\* configuration and initialisation only
NextConfig ==
    \/ Room(MaxCalls) /\ \E l \in LogLevels : WithLogLevel(l)
    \/ Room(MaxCalls) /\ \E t \in TrackingIds : WithTrackingId(t)
    \/ Room(MaxCalls) /\ Start

SpecConfig == Init /\ [][NextConfig]_vars

\* the unsupported platform
InitIos == Init /\ os = "ios"

NextIos ==
    \/ Room(MaxCalls) /\ Start
    \/ Room(MaxCalls) /\ \E a \in EventArgs : SendEvent(a)
    \/ Room(MaxCalls) /\ \E v \in BOOLEAN : Enable(v)
    \/ Room(MaxCalls) /\ \E m \in Accessors : Accessor(m)
    \/ Room(MaxCalls) /\ \E a \in ExperienceArgs : GetExperiences(a)
    \/ \E i \in Results : \E o \in NativeOutcomes(results[i].op) : NativeSettle(i, o)
    \/ \E i \in Results : ThenReaction(i)
    \/ \E i \in Results : CatchReaction(i)

SpecIos == InitIos /\ [][NextIos]_vars

\* a supported platform, after configuration
InitSupported == Init /\ os # "ios"

NextSupported ==
    \/ Room(MaxCalls) /\ Start
    \/ Room(MaxCalls) /\ \E a \in EventArgs : SendEvent(a)
    \/ Room(MaxCalls) /\ \E v \in BOOLEAN : Enable(v)
    \/ Room(MaxCalls) /\ \E m \in Accessors : Accessor(m)
    \/ Room(MaxCalls) /\ \E a \in ExperienceArgs : GetExperiences(a)
    \/ Room(MaxCalls) /\ \E i \in Results : \E j \in Elements(results[i]) : InvokeShown(i, j)
    \/ \E i \in Results : \E o \in NativeOutcomes(results[i].op) : NativeSettle(i, o)
    \/ \E i \in Results : ThenReaction(i)
    \/ \E i \in Results : CatchReaction(i)

SpecSupported == InitSupported /\ [][NextSupported]_vars

\* a supported platform, experiences only
NextExperiences ==
    \/ Room(MaxCalls) /\ \E a \in ExperienceArgs : GetExperiences(a)
    \/ Room(MaxCalls) /\ \E i \in Results : \E j \in Elements(results[i]) : InvokeShown(i, j)
    \/ \E i \in Results : \E o \in NativeOutcomes(results[i].op) : NativeSettle(i, o)
    \/ \E i \in Results : ThenReaction(i)
    \/ \E i \in Results : CatchReaction(i)

SpecExperiences == InitSupported /\ [][NextExperiences]_vars

----------------------------------------------------------------------------
(* Reading the two histories *)

\* the positions of log whose entry satisfies Keep, in increasing order
Positions(log, Keep(_)) ==
    LET F[k \in 0..Len(log)] ==
            IF k = 0 THEN <<>>
            ELSE IF Keep(log[k]) THEN Append(F[k - 1], k) ELSE F[k - 1]
    IN  F[Len(log)]

IsOp(o, c) == c.op = o

IsMethod(m, c) == c.method = m

OpAt(o) == Positions(calls, LAMBDA c : IsOp(o, c))

MethodAt(m) == Positions(nativeCalls, LAMBDA c : IsMethod(m, c))

\* the argument of the latest call of setter o among the first n invocations
LastArg(o, n, default) ==
    LET at == {k \in 1..n : calls[k].op = o}
    IN  IF at = {} THEN default
        ELSE calls[CHOOSE k \in at : \A h \in at : h <= k].args[1]

Supported == os # "ios"

ExperienceResults == {i \in Results : results[i].op = "getExperiences"}

AccessorResults == {i \in Results : results[i].op \in Accessors}

----------------------------------------------------------------------------
(* C1.  On ios the native module receives no call at all, whatever the      *)
(* sequence of facade operations.                                           *)
C1_NoNativeCallOnIos ==
    os = "ios" => Len(nativeCalls) = 0

(* C2.  On ios every result of getExperiences is rejected with the          *)
(* platform's empty rejection, in every state: it is never pending, never   *)
(* fulfilled and never rejected with anything the native call produced,     *)
(* whether that call resolved, rejected or is still pending.                *)
C2_IosExperiencesRejected ==
    os = "ios" =>
        \A i \in ExperienceResults :
            /\ results[i].promise.state = "rejected"
            /\ results[i].promise.value = Undefined

\* the native call resolved with records and the then-reaction has run
C2_Witness ==
    /\ os = "ios"
    /\ \E i \in ExperienceResults :
          /\ results[i].native.state = "fulfilled"
          /\ results[i].chain = "done"
          /\ results[i].promise.state = "rejected"

(* C3.  On ios start, sendEvent and enable never reach the native module:   *)
(* no init, sendEvent or enableTracker call is ever recorded.               *)
C3_IosSyncOpsSilent ==
    os = "ios" =>
        \A k \in 1..Len(nativeCalls) :
            nativeCalls[k].method \notin {"init", "sendEvent", "enableTracker"}

\* all three were called
C3_Witness ==
    /\ os = "ios"
    /\ OpAt("start") # <<>>
    /\ OpAt("sendEvent") # <<>>
    /\ OpAt("enable") # <<>>

(* C4.  On ios the result of getTrackingId, getDeviceId and getLookupData   *)
(* is rejected from the moment it is returned, with no error detail, is     *)
(* never fulfilled, has no native promise behind it, and the native         *)
(* accessors are never called.                                              *)
C4_IosAccessorsRejected ==
    os = "ios" =>
        /\ \A i \in AccessorResults :
              /\ results[i].promise.state = "rejected"
              /\ results[i].promise.value = Undefined
              /\ results[i].native.state = "none"
        /\ \A k \in 1..Len(nativeCalls) : nativeCalls[k].method \notin Accessors

\* each of the three accessors was called
C4_Witness ==
    /\ os = "ios"
    /\ \A m \in Accessors : \E i \in AccessorResults : results[i].op = m

(* C5.  On a supported platform the native init calls are exactly the       *)
(* start calls, one each and in order, and the k-th carries the arguments   *)
(* of the latest withTrackingId and withLogLevel before the k-th start, or  *)
(* null / WARN when that setter was not called before it.                   *)
C5_StartForwardsConfig ==
    Supported =>
        LET fs == OpAt("start")
            ns == MethodAt("init")
        IN  /\ Len(ns) = Len(fs)
            /\ \A k \in 1..Len(fs) :
                  LET call == nativeCalls[ns[k]]
                      n == fs[k] - 1
                  IN  /\ Len(call.args) = 2
                      /\ call.args[1] = LastArg("withTrackingId", n, Null)
                      /\ call.args[2] = LastArg("withLogLevel", n, DefaultLogLevel)

\* withTrackingId("abc"), withLogLevel("VERBOSE"), start
C5_Witness ==
    /\ Supported
    /\ Len(calls) = 3
    /\ calls[1].op = "withTrackingId"
    /\ calls[2].op = "withLogLevel" /\ calls[2].args[1] = "VERBOSE"
    /\ calls[3].op = "start"
    /\ Len(nativeCalls) = 1
    /\ nativeCalls[1].args = <<"abc", "VERBOSE">>

(* C6.  On a supported platform a result of getExperiences is fulfilled    *)
(* only with the decoration of what the native call resolved with: same     *)
(* length, same order, element j holding every field of native record j     *)
(* with its value, plus shown; it is fulfilled once the then-reaction has   *)
(* run on a resolved native call.  The experienceShown calls are exactly    *)
(* the invocations of shown, one each and in order, and each carries the    *)
(* native record of the element invoked, without the added capability.      *)
C6_DecoratedExperiences ==
    Supported =>
        /\ \A i \in ExperienceResults :
              LET r == results[i] IN
              /\ (r.native.state = "fulfilled" /\ r.chain = "done")
                    => r.promise.state = "fulfilled"
              /\ r.promise.state = "fulfilled" =>
                    /\ r.native.state = "fulfilled"
                    /\ Len(r.promise.value) = Len(r.native.value)
                    /\ \A j \in 1..Len(r.native.value) :
                          /\ DOMAIN r.promise.value[j]
                                = (DOMAIN r.native.value[j]) \cup {"shown"}
                          /\ \A f \in DOMAIN r.native.value[j] :
                                r.promise.value[j][f] = r.native.value[j][f]
        /\ LET fs == OpAt("shown")
                ns == MethodAt("experienceShown")
           IN  /\ Len(ns) = Len(fs)
               /\ \A k \in 1..Len(fs) :
                     LET inv == calls[fs[k]]
                         call == nativeCalls[ns[k]]
                     IN  /\ Len(call.args) = 1
                         /\ call.args[1]
                               = results[inv.args[1]].native.value[inv.args[2]]

\* shown was invoked on both elements of a two-record response
C6_Witness ==
    /\ Supported
    /\ Len(OpAt("shown")) = 2
    /\ calls[OpAt("shown")[1]].args[2] # calls[OpAt("shown")[2]].args[2]
    /\ Len(MethodAt("experienceShown")) = 2

(* C7.  On a supported platform the native getExperiences calls are exactly *)
(* the facade's getExperiences calls, one each and in order, and each       *)
(* carries the caller's seven arguments in the same positions.              *)
C7_ExperienceArgsForwarded ==
    Supported =>
        LET fs == OpAt("getExperiences")
            ns == MethodAt("getExperiences")
        IN  /\ Len(ns) = Len(fs)
            /\ \A k \in 1..Len(fs) :
                  LET inv == calls[fs[k]]
                      call == nativeCalls[ns[k]]
                  IN  /\ Len(call.args) = 7
                      /\ \A n \in 1..7 : call.args[n] = inv.args[n]

\* getExperiences([1,2], true, 5, false, false, true, true) and
\* getExperiences([], false, 0, false, false, false, false) were both forwarded
C7_Witness ==
    /\ Supported
    /\ \E k \in 1..Len(MethodAt("getExperiences")) :
          nativeCalls[MethodAt("getExperiences")[k]].args[3] = 5
    /\ \E k \in 1..Len(MethodAt("getExperiences")) :
          nativeCalls[MethodAt("getExperiences")[k]].args[1] = <<>>

(* C8.  On a supported platform a result of getExperiences is pending while *)
(* its native call is pending; when the native call rejected it is never    *)
(* fulfilled, and once the catch-reaction has run it is rejected with the   *)
(* native error itself; it is rejected with nothing else; and a rejection   *)
(* causes no second native getExperiences call.                             *)
C8_NativeRejectionPropagates ==
    Supported =>
        /\ \A i \in ExperienceResults :
              LET r == results[i] IN
              /\ r.native.state = "pending" => r.promise.state = "pending"
              /\ r.native.state = "rejected" => r.promise.state # "fulfilled"
              /\ (r.native.state = "rejected" /\ r.chain = "done")
                    => r.promise.state = "rejected"
              /\ r.promise.state = "rejected" =>
                    /\ r.native.state = "rejected"
                    /\ r.promise.value = r.native.value
        /\ Len(MethodAt("getExperiences")) = Cardinality(ExperienceResults)

\* two native calls rejected with different errors, both reactions have run
C8_Witness ==
    /\ Supported
    /\ \E i, j \in ExperienceResults :
          /\ results[i].chain = "done" /\ results[j].chain = "done"
          /\ results[i].promise.state = "rejected"
          /\ results[j].promise.state = "rejected"
          /\ results[i].promise.value = "E_NATIVE"
          /\ results[j].promise.value = "E_OTHER"

\* the native method a facade operation forwards to
NativeName(o) ==
    CASE o = "start" -> "init"
      [] o = "enable" -> "enableTracker"
      [] OTHER -> o

IsForwarder(c) == c.op \notin {"withLogLevel", "withTrackingId", "shown"}

(* C9.  On a supported platform the native calls other than experienceShown *)
(* are the facade's forwarding invocations in invocation order, one native  *)
(* call per invocation, with the caller's arguments (for start, with the    *)
(* two configuration fields).                                                *)
C9_ForwardedInOrder ==
    Supported =>
        LET fs == Positions(calls, IsForwarder)
            ns == Positions(nativeCalls, LAMBDA c : c.method # "experienceShown")
        IN  /\ Len(ns) = Len(fs)
            /\ \A k \in 1..Len(fs) :
                  LET inv == calls[fs[k]]
                      call == nativeCalls[ns[k]]
                  IN  /\ call.method = NativeName(inv.op)
                      /\ IF inv.op = "start"
                         THEN Len(call.args) = 2
                         ELSE /\ Len(call.args) = Len(inv.args)
                              /\ \A n \in 1..Len(inv.args) :
                                    call.args[n] = inv.args[n]

\* three forwarded calls, and the result of the later promise settled while
\* the earlier one is still pending
C9_Witness ==
    /\ Supported
    /\ Len(nativeCalls) = 3
    /\ nativeCalls[1].method = "sendEvent"
    /\ Len(results) = 2
    /\ results[1].promise.state = "pending"
    /\ results[2].promise.state \in {"fulfilled", "rejected"}

\* what the latest invocation must have sent to the native module, from the
\* platform and the invocation alone
SentBy(c) ==
    IF c.op \in {"withLogLevel", "withTrackingId"} THEN 0
    ELSE IF c.op = "shown" THEN 1
    ELSE IF c.op = "getExperiences" THEN (IF linked THEN 1 ELSE 0)
    ELSE IF os = "ios" THEN 0 ELSE 1

(* C10.  In every step: only withTrackingId changes the tracking id and     *)
(* only withLogLevel changes the log level, each to its argument and        *)
(* leaving the other field alone; every other operation and every           *)
(* settlement leaves both fields unchanged; and what an operation other     *)
(* than start sends to the native module is decided by the platform and the *)
(* operation alone, so it is the same with and without an earlier start.    *)
C10_ConfigFrame ==
    [][ IF Len(calls') = Len(calls)
        THEN UNCHANGED <<config, nativeCalls>>
        ELSE LET c == calls'[Len(calls')] IN
             /\ _trackingId' =
                   IF c.op = "withTrackingId" THEN c.args[1] ELSE _trackingId
             /\ _logLevel' =
                   IF c.op = "withLogLevel" THEN c.args[1] ELSE _logLevel
             /\ Len(nativeCalls') = Len(nativeCalls) + SentBy(c)
             /\ (SentBy(c) = 1 /\ c.op # "shown") =>
                   nativeCalls'[Len(nativeCalls')].method = NativeName(c.op)
      ]_vars

\* an event was forwarded although start was never called, after a setter
C10_Witness ==
    /\ Supported
    /\ Len(calls) = 2
    /\ calls[1].op = "withTrackingId"
    /\ calls[2].op = "sendEvent"
    /\ _trackingId = "abc"
    /\ Len(nativeCalls) = 1
    /\ nativeCalls[1].method = "sendEvent"

====
